---- MODULE Spec2Model ----
(***************************************************************************)
(* A model of shopcore's plugin manager (PluginManager), of the provider   *)
(* that owns it (ShopcoreProviderClass) and of the cart store              *)
(* (CartProvider / cartReducer).                                           *)
(*                                                                         *)
(* Three specifications share the module:                                  *)
(*   SpecPM        the plugin manager driven directly by its operations    *)
(*   SpecProvider  the provider lifecycle (mount, prop change, teardown)   *)
(*                 with the exposed manager used by application code       *)
(*   SpecCart      the cart store: reducer, actions closed over the        *)
(*                 rendered state, re-render                               *)
(***************************************************************************)
EXTENDS Integers, Sequences, FiniteSets, TLC

VARIABLES
  pm,        \* PluginManager fields: plugins (Map, insertion order), config, theme, initialized
  last,      \* the last operation: its name, inputs, result, whether it threw, the hooks it invoked
  phase,     \* provider lifecycle position
  props,     \* the provider's current props
  provider,  \* ShopcoreProviderClass fields: config, theme
  cartConfig,\* the config prop of CartProvider
  cart,      \* the reducer state of CartProvider (after every dispatched action)
  rendered,  \* the state captured by the `actions` closure of the last render
  itemsDirty,\* state.items is another array than at the last run of the totals effect
  mounted,   \* the mount effects of CartProvider have run
  nextId,    \* number of cart item ids generated so far
  storage,   \* the text stored under the cart's storage key (parsed), or Null
  notified,  \* the state last passed to events.onCartUpdate, or Null
  lastAdd    \* the last addItem that added an item, while nothing else touched the items

pmVars == <<pm>>
providerVars == <<phase, props, provider>>
cartVars == <<cartConfig, cart, rendered, itemsDirty, mounted, nextId, storage, notified,
              lastAdd>>
vars == <<pm, last, phase, props, provider, cartConfig, cart, rendered, itemsDirty, mounted,
          nextId, storage, notified, lastAdd>>

(***************************************************************************)
(* Bounds of the model.                                                    *)
(***************************************************************************)
MaxRegistry == 3    \* plugins held by the registry at once
MaxAdds == 2        \* cart items created in one run
MaxQty == 2         \* largest quantity a caller asks for

(***************************************************************************)
(* JavaScript values that hooks return.                                    *)
(***************************************************************************)
Null == [t |-> "null"]
Undefined == [t |-> "undefined"]
Zero == [t |-> "number", v |-> 0]
EmptyString == [t |-> "string", v |-> ""]
False == [t |-> "boolean", v |-> FALSE]
True == [t |-> "boolean", v |-> TRUE]
Element(o, hook, comp) == [t |-> "element", by |-> o, hook |-> hook, comp |-> comp]

\* `if (x)`: JavaScript truthiness
Truthy(x) ==
  CASE x.t \in {"null", "undefined"} -> FALSE
    [] x.t = "number" -> x.v # 0
    [] x.t = "string" -> x.v # ""
    [] x.t = "boolean" -> x.v
    [] OTHER -> TRUE

\* x !== null && x !== undefined
NonNull(x) == x.t \notin {"null", "undefined"}

(***************************************************************************)
(* Helpers on sequences.                                                   *)
(***************************************************************************)
Range(s) == {s[i] : i \in 1..Len(s)}
Front(s) == SubSeq(s, 1, Len(s) - 1)
Reverse(s) == [i \in 1..Len(s) |-> s[Len(s) + 1 - i]]

RECURSIVE SelectObjs(_, _)
\* the subsequence of s whose elements are in the set keep
SelectObjs(s, keep) ==
  IF s = <<>> THEN <<>>
  ELSE IF Head(s) \in keep THEN <<Head(s)>> \o SelectObjs(Tail(s), keep)
  ELSE SelectObjs(Tail(s), keep)

(***************************************************************************)
(* The plugins the application can hand to the registry.  Each is a        *)
(* ShopcorePlugin object: an id and optional hooks.  A hook is described   *)
(* by what a call of it does: "absent" (not implemented), "throw", or the  *)
(* kind of value it returns.  A and A2 are two objects with the same id;   *)
(* E has an empty id.                                                      *)
(***************************************************************************)
PluginObjects == {"A", "B", "C", "D", "A2", "E"}
ComponentNames == {"ProductCard", "CartItem"}
DataHooks == {"onProductLoad", "onProductsLoad", "onCartLoad", "onCartItemLoad"}

Plugin(o) ==
  CASE o = "A" ->
         [id |-> "a", onMount |-> "ok", onUnmount |-> "ok",
          data |-> [onProductLoad |-> "tag", onProductsLoad |-> "tag",
                    onCartLoad |-> "tag", onCartItemLoad |-> "absent"],
          beforeRender |-> [ProductCard |-> "element", CartItem |-> "element"],
          afterRender |-> [ProductCard |-> "element", CartItem |-> "null"],
          replaceComponent |-> [ProductCard |-> "element", CartItem |-> "null"],
          beforeFetch |-> "both", afterFetch |-> "tag",
          onFetchError |-> "false"]
    [] o = "B" ->
         [id |-> "b", onMount |-> "throw", onUnmount |-> "throw",
          data |-> [onProductLoad |-> "throw", onProductsLoad |-> "tag",
                    onCartLoad |-> "throw", onCartItemLoad |-> "tag"],
          beforeRender |-> [ProductCard |-> "throw", CartItem |-> "element"],
          afterRender |-> [ProductCard |-> "element", CartItem |-> "throw"],
          replaceComponent |-> [ProductCard |-> "throw", CartItem |-> "element"],
          beforeFetch |-> "throw", afterFetch |-> "throw",
          onFetchError |-> "throw"]
    [] o = "C" ->
         [id |-> "c", onMount |-> "absent", onUnmount |-> "ok",
          data |-> [onProductLoad |-> "tag", onProductsLoad |-> "throw",
                    onCartLoad |-> "absent", onCartItemLoad |-> "tag"],
          beforeRender |-> [ProductCard |-> "zero", CartItem |-> "null"],
          afterRender |-> [ProductCard |-> "empty", CartItem |-> "element"],
          replaceComponent |-> [ProductCard |-> "zero", CartItem |-> "throw"],
          beforeFetch |-> "url", afterFetch |-> "absent",
          onFetchError |-> "true"]
    [] o = "D" ->
         [id |-> "d", onMount |-> "ok", onUnmount |-> "absent",
          data |-> [onProductLoad |-> "absent", onProductsLoad |-> "absent",
                    onCartLoad |-> "tag", onCartItemLoad |-> "throw"],
          beforeRender |-> [ProductCard |-> "absent", CartItem |-> "undefined"],
          afterRender |-> [ProductCard |-> "false", CartItem |-> "absent"],
          replaceComponent |-> [ProductCard |-> "null", CartItem |-> "element"],
          beforeFetch |-> "undefined", afterFetch |-> "tag",
          onFetchError |-> "absent"]
    [] o = "A2" ->
         [id |-> "a", onMount |-> "ok", onUnmount |-> "ok",
          data |-> [onProductLoad |-> "tag", onProductsLoad |-> "tag",
                    onCartLoad |-> "tag", onCartItemLoad |-> "tag"],
          beforeRender |-> [ProductCard |-> "element", CartItem |-> "absent"],
          afterRender |-> [ProductCard |-> "absent", CartItem |-> "element"],
          replaceComponent |-> [ProductCard |-> "absent", CartItem |-> "element"],
          beforeFetch |-> "absent", afterFetch |-> "tag",
          onFetchError |-> "true"]
    [] OTHER ->
         [id |-> "", onMount |-> "ok", onUnmount |-> "ok",
          data |-> [onProductLoad |-> "tag", onProductsLoad |-> "tag",
                    onCartLoad |-> "tag", onCartItemLoad |-> "tag"],
          beforeRender |-> [ProductCard |-> "element", CartItem |-> "element"],
          afterRender |-> [ProductCard |-> "element", CartItem |-> "element"],
          replaceComponent |-> [ProductCard |-> "element", CartItem |-> "element"],
          beforeFetch |-> "both", afterFetch |-> "tag",
          onFetchError |-> "true"]

PluginIds == {Plugin(o).id : o \in PluginObjects} \ {""}

\* a data hook of plugin o called with value v: the plugins of the model append their tag
CallDataHook(o, kind, v) ==
  IF Plugin(o).data[kind] = "throw"
  THEN [threw |-> TRUE, val |-> v]
  ELSE [threw |-> FALSE, val |-> Append(v, o)]

\* a ui hook (beforeRender, afterRender, replaceComponent) of plugin o for a component
CallUiHook(o, hook, comp) ==
  LET b == Plugin(o)[hook][comp] IN
  CASE b = "throw" -> [threw |-> TRUE, val |-> Undefined]
    [] b = "null" -> [threw |-> FALSE, val |-> Null]
    [] b = "undefined" -> [threw |-> FALSE, val |-> Undefined]
    [] b = "zero" -> [threw |-> FALSE, val |-> Zero]
    [] b = "empty" -> [threw |-> FALSE, val |-> EmptyString]
    [] b = "false" -> [threw |-> FALSE, val |-> False]
    [] OTHER -> [threw |-> FALSE, val |-> Element(o, hook, comp)]

\* the record of one hook invocation
Event(hook, o, arg, threw) == [hook |-> hook, obj |-> o, arg |-> arg, threw |-> threw]

(***************************************************************************)
(* Configuration and theme, as the provider merges them.                   *)
(***************************************************************************)
\* an object literal is the function from the keys it supplies to their values
EmptyObject == [k \in {} |-> ""]

\* { ...a, ...b }
Spread(a, b) ==
  [k \in (DOMAIN a) \cup (DOMAIN b) |-> IF k \in DOMAIN b THEN b[k] ELSE a[k]]

\* Partial<ShopcoreConfig> props: a serialisable field and a function-valued one
\* (cart.pricing.calculateTotals); "absent" is a key the user did not supply
UserConfig(c, f) ==
  Spread(IF c = "absent" THEN EmptyObject ELSE [defaultCurrency |-> c],
         IF f = "absent" THEN EmptyObject ELSE [calculateTotals |-> f])

\* a config that supplies the four required fields
CompleteConfig ==
  [mode |-> "development", defaultCurrency |-> "EUR", supportedCurrencies |-> "EUR",
   defaultLocale |-> "de-DE"]

UserConfigs ==
  {UserConfig("absent", "absent"), UserConfig("absent", "fnA"), UserConfig("EUR", "absent")}

\* Partial<Theme> props: nothing, or the colors section with its primary key only
UserTheme(t) == IF t = "absent" THEN EmptyObject ELSE [colors |-> [primary |-> t]]
UserThemes == {UserTheme("absent"), UserTheme("red")}

DefaultCurrency == "USD"
DefaultPrimary == "#0070f3"

\* the provider's defaultConfig (features, mock and cart left out)
defaultConfig ==
  [mode |-> "production", debug |-> "false", defaultCurrency |-> DefaultCurrency,
   supportedCurrencies |-> "USD", defaultLocale |-> "en-US"]

\* defaultTheme: two of its sections, with two keys and one key
defaultTheme ==
  [colors |-> [primary |-> DefaultPrimary, secondary |-> "#1e293b"],
   spacing |-> [md |-> "1rem"]]

\* requiredConfigFields
RequiredConfigFields == {"mode", "defaultCurrency", "supportedCurrencies", "defaultLocale"}

\* { ...defaultConfig, ...config, cart: { ...defaultConfig.cart, ...config.cart, storage } }
MergeConfig(c) == Spread(defaultConfig, c)

\* { ...defaultTheme, ...theme }
MergeTheme(t) == Spread(defaultTheme, t)

\* JSON.stringify: a property whose value is a function is left out
Stringify(c) == [k \in (DOMAIN c) \ {"calculateTotals"} |-> c[k]]

(***************************************************************************)
(* PluginManager.  Every operation is an operator from the manager's       *)
(* fields to the fields after the call, the value returned, whether an     *)
(* exception left the call, and the hook invocations in order.             *)
(***************************************************************************)
NewPluginManager ==
  [plugins |-> <<>>, config |-> Null, theme |-> Null, initialized |-> FALSE]

\* this.plugins.has(id)
Has(m, id) == \E i \in 1..Len(m.plugins) : Plugin(m.plugins[i]).id = id

\* this.plugins.delete(id)
Delete(m, id) ==
  [m EXCEPT !.plugins = SelectObjs(m.plugins, {o \in PluginObjects : Plugin(o).id # id})]

Result(m, ret, threw, error, events) ==
  [pm |-> m, ret |-> ret, threw |-> threw, error |-> error, events |-> events]

\* initializePlugin without its try/catch: the mount hook's exception leaves the call
initializePluginNoCatch(o, config, theme) ==
  IF Plugin(o).onMount = "absent" THEN [threw |-> FALSE, events |-> <<>>]
  ELSE [threw |-> Plugin(o).onMount = "throw",
        events |-> <<Event("onMount", o, <<config, theme>>, Plugin(o).onMount = "throw")>>]

\* initializePlugin: the mount hook, its exception caught and logged
initializePlugin(o, config, theme) ==
  IF Plugin(o).onMount = "absent" THEN [threw |-> FALSE, events |-> <<>>]
  ELSE [threw |-> FALSE,
        events |-> <<Event("onMount", o, <<config, theme>>, Plugin(o).onMount = "throw")>>]

\* register without the duplicate check: Map.set replaces the object stored under the id
registerOverwrite(m, o) ==
  IF Plugin(o).id = ""
  THEN Result(m, Undefined, TRUE, "Plugin must have an ID", <<>>)
  ELSE LET m1 == [m EXCEPT !.plugins =
                    IF Has(m, Plugin(o).id)
                    THEN [i \in 1..Len(m.plugins) |->
                            IF Plugin(m.plugins[i]).id = Plugin(o).id THEN o ELSE m.plugins[i]]
                    ELSE Append(m.plugins, o)]
       IN IF m.initialized /\ m.config # Null /\ m.theme # Null
          THEN LET r == initializePlugin(o, m.config, m.theme) IN
               Result(m1, Undefined, r.threw, "", r.events)
          ELSE Result(m1, Undefined, FALSE, "", <<>>)

\* register that stores the plugin and leaves its mount hook to a later initialize
registerUnmounted(m, o) ==
  IF Plugin(o).id = ""
  THEN Result(m, Undefined, TRUE, "Plugin must have an ID", <<>>)
  ELSE IF Has(m, Plugin(o).id)
  THEN Result(m, Undefined, TRUE, "already registered", <<>>)
  ELSE Result([m EXCEPT !.plugins = Append(m.plugins, o)], Undefined, FALSE, "", <<>>)

register(m, o) ==
  IF Plugin(o).id = ""
  THEN Result(m, Undefined, TRUE, "Plugin must have an ID", <<>>)
  ELSE IF Has(m, Plugin(o).id)
  THEN Result(m, Undefined, TRUE, "already registered", <<>>)
  ELSE LET m1 == [m EXCEPT !.plugins = Append(m.plugins, o)] IN
       IF m.initialized /\ m.config # Null /\ m.theme # Null
       THEN LET r == initializePlugin(o, m.config, m.theme) IN
            Result(m1, Undefined, r.threw, "", r.events)
       ELSE Result(m1, Undefined, FALSE, "", <<>>)

\* unregister whose removal is skipped when the unmount hook throws
unregisterKeepOnThrow(m, id) ==
  LET found == {i \in 1..Len(m.plugins) : Plugin(m.plugins[i]).id = id} IN
  IF found = {} THEN Result(m, False, FALSE, "", <<>>)
  ELSE LET o == m.plugins[CHOOSE i \in found : TRUE] IN
       IF Plugin(o).onUnmount = "absent"
       THEN Result(Delete(m, id), True, FALSE, "", <<>>)
       ELSE IF Plugin(o).onUnmount = "throw"
       THEN Result(m, False, FALSE, "", <<Event("onUnmount", o, Undefined, TRUE)>>)
       ELSE Result(Delete(m, id), True, FALSE, "", <<Event("onUnmount", o, Undefined, FALSE)>>)

unregister(m, id) ==
  LET found == {i \in 1..Len(m.plugins) : Plugin(m.plugins[i]).id = id} IN
  IF found = {} THEN Result(m, False, FALSE, "", <<>>)
  ELSE LET o == m.plugins[CHOOSE i \in found : TRUE] IN
       IF Plugin(o).onUnmount = "absent"
       THEN Result(Delete(m, id), True, FALSE, "", <<>>)
       ELSE Result(Delete(m, id), True, FALSE, "",
                   <<Event("onUnmount", o, Undefined, Plugin(o).onUnmount = "throw")>>)

RECURSIVE InitializeLoop(_, _, _, _, _)
\* this.plugins.forEach(plugin => this.initializePlugin(plugin, config, theme)) from index i
InitializeLoop(ps, i, config, theme, ev) ==
  IF i > Len(ps) THEN [threw |-> FALSE, events |-> ev]
  ELSE LET r == initializePlugin(ps[i], config, theme) IN
       IF r.threw THEN [threw |-> TRUE, events |-> ev \o r.events]
       ELSE InitializeLoop(ps, i + 1, config, theme, ev \o r.events)

\* initialize that runs the mount hooks only the first time it is called
initializeOnce(m, config, theme) ==
  LET m1 == [m EXCEPT !.config = config, !.theme = theme, !.initialized = TRUE]
      r == InitializeLoop(m1.plugins, 1, config, theme, <<>>)
  IN IF m.initialized THEN Result(m1, Undefined, FALSE, "", <<>>)
     ELSE Result(m1, Undefined, r.threw, "", r.events)

initialize(m, config, theme) ==
  LET m1 == [m EXCEPT !.config = config, !.theme = theme, !.initialized = TRUE]
      r == InitializeLoop(m1.plugins, 1, config, theme, <<>>)
  IN Result(m1, Undefined, r.threw, "", r.events)

RECURSIVE DataLoopAbort(_, _, _, _, _)
\* the forEach with the try/catch around the whole loop: a throwing hook ends the pipeline
DataLoopAbort(ps, kind, i, v, ev) ==
  IF i > Len(ps) THEN [val |-> v, events |-> ev]
  ELSE IF Plugin(ps[i]).data[kind] = "absent" THEN DataLoopAbort(ps, kind, i + 1, v, ev)
  ELSE LET r == CallDataHook(ps[i], kind, v)
           e == Event(kind, ps[i], v, r.threw)
       IN IF r.threw THEN [val |-> v, events |-> Append(ev, e)]
          ELSE DataLoopAbort(ps, kind, i + 1, r.val, Append(ev, e))

RECURSIVE DataLoop(_, _, _, _, _)
\* the forEach of applyProductHook / applyProductsHook / applyCartHook / applyCartItemHook
DataLoop(ps, kind, i, v, ev) ==
  IF i > Len(ps) THEN [val |-> v, events |-> ev]
  ELSE IF Plugin(ps[i]).data[kind] = "absent" THEN DataLoop(ps, kind, i + 1, v, ev)
  ELSE LET r == CallDataHook(ps[i], kind, v)
           e == Event(kind, ps[i], v, r.threw)
       IN IF r.threw THEN DataLoop(ps, kind, i + 1, v, Append(ev, e))
          ELSE DataLoop(ps, kind, i + 1, r.val, Append(ev, e))

\* applyProductHook (kind onProductLoad) and its three siblings; the value is first copied
applyDataHook(m, kind, v) ==
  LET r == DataLoop(m.plugins, kind, 1, v, <<>>) IN Result(m, r.val, FALSE, "", r.events)

RECURSIVE RenderLoop(_, _, _, _, _, _)
\* the forEach of applyBeforeRenderHooks / applyAfterRenderHooks
RenderLoop(ps, hook, comp, i, elements, ev) ==
  IF i > Len(ps) THEN [val |-> elements, events |-> ev]
  ELSE IF Plugin(ps[i])[hook][comp] = "absent"
  THEN RenderLoop(ps, hook, comp, i + 1, elements, ev)
  ELSE LET r == CallUiHook(ps[i], hook, comp)
           e == Event(hook, ps[i], comp, r.threw)
       IN IF ~r.threw /\ Truthy(r.val)
          THEN RenderLoop(ps, hook, comp, i + 1, Append(elements, r.val), Append(ev, e))
          ELSE RenderLoop(ps, hook, comp, i + 1, elements, Append(ev, e))

applyBeforeRenderHooks(m, comp) ==
  LET r == RenderLoop(m.plugins, "beforeRender", comp, 1, <<>>, <<>>) IN
  Result(m, r.val, FALSE, "", r.events)

applyAfterRenderHooks(m, comp) ==
  LET r == RenderLoop(m.plugins, "afterRender", comp, 1, <<>>, <<>>) IN
  Result(m, r.val, FALSE, "", r.events)

RECURSIVE ReplaceLoop(_, _, _, _)
\* Array.from(this.plugins.values()).reverse().some(...): rs is the reversed list
ReplaceLoop(rs, comp, i, ev) ==
  IF i > Len(rs) THEN [val |-> Null, events |-> ev]
  ELSE IF Plugin(rs[i]).replaceComponent[comp] = "absent"
  THEN ReplaceLoop(rs, comp, i + 1, ev)
  ELSE LET r == CallUiHook(rs[i], "replaceComponent", comp)
           e == Event("replaceComponent", rs[i], comp, r.threw)
       IN IF ~r.threw /\ Truthy(r.val)
          THEN [val |-> r.val, events |-> Append(ev, e)]
          ELSE ReplaceLoop(rs, comp, i + 1, Append(ev, e))

applyReplaceComponentHook(m, comp) ==
  LET r == ReplaceLoop(Reverse(m.plugins), comp, 1, <<>>) IN
  Result(m, r.val, FALSE, "", r.events)

\* plugin o's beforeFetch called with (url, options): the plugins of the model append their
\* tag to both, or to the url only; one returns undefined, and reading result.url throws
CallBeforeFetch(o, url, options) ==
  LET b == Plugin(o).beforeFetch IN
  CASE b \in {"throw", "undefined"} -> [threw |-> TRUE, url |-> url, options |-> options]
    [] b = "url" -> [threw |-> FALSE, url |-> Append(url, o), options |-> options]
    [] OTHER -> [threw |-> FALSE, url |-> Append(url, o), options |-> Append(options, o)]

\* plugin o's afterFetch called with the response
CallAfterFetch(o, response) ==
  IF Plugin(o).afterFetch = "throw"
  THEN [threw |-> TRUE, val |-> response]
  ELSE [threw |-> FALSE, val |-> Append(response, o)]

RECURSIVE BeforeFetchLoopAbort(_, _, _, _, _)
\* the forEach with the try/catch around the whole loop: a throwing hook ends the threading
BeforeFetchLoopAbort(ps, i, url, options, ev) ==
  IF i > Len(ps) THEN [url |-> url, options |-> options, events |-> ev]
  ELSE IF Plugin(ps[i]).beforeFetch = "absent"
  THEN BeforeFetchLoopAbort(ps, i + 1, url, options, ev)
  ELSE LET r == CallBeforeFetch(ps[i], url, options)
           e == Event("beforeFetch", ps[i], <<url, options>>, r.threw)
       IN IF r.threw THEN [url |-> url, options |-> options, events |-> Append(ev, e)]
          ELSE BeforeFetchLoopAbort(ps, i + 1, r.url, r.options, Append(ev, e))

RECURSIVE BeforeFetchLoop(_, _, _, _, _)
\* the forEach of applyBeforeFetchHook: modifiedUrl and modifiedOptions are assigned
\* only after the hook returned and result.url, result.options were read
BeforeFetchLoop(ps, i, url, options, ev) ==
  IF i > Len(ps) THEN [url |-> url, options |-> options, events |-> ev]
  ELSE IF Plugin(ps[i]).beforeFetch = "absent"
  THEN BeforeFetchLoop(ps, i + 1, url, options, ev)
  ELSE LET r == CallBeforeFetch(ps[i], url, options)
           e == Event("beforeFetch", ps[i], <<url, options>>, r.threw)
       IN IF r.threw THEN BeforeFetchLoop(ps, i + 1, url, options, Append(ev, e))
          ELSE BeforeFetchLoop(ps, i + 1, r.url, r.options, Append(ev, e))

\* the options are first copied ({ ...options })
applyBeforeFetchHook(m, url, options) ==
  LET r == BeforeFetchLoop(m.plugins, 1, url, options, <<>>) IN
  Result(m, [url |-> r.url, options |-> r.options], FALSE, "", r.events)

RECURSIVE AfterFetchLoop(_, _, _, _)
\* the forEach of applyAfterFetchHook
AfterFetchLoop(ps, i, response, ev) ==
  IF i > Len(ps) THEN [val |-> response, events |-> ev]
  ELSE IF Plugin(ps[i]).afterFetch = "absent" THEN AfterFetchLoop(ps, i + 1, response, ev)
  ELSE LET r == CallAfterFetch(ps[i], response)
           e == Event("afterFetch", ps[i], response, r.threw)
       IN IF r.threw THEN AfterFetchLoop(ps, i + 1, response, Append(ev, e))
          ELSE AfterFetchLoop(ps, i + 1, r.val, Append(ev, e))

applyAfterFetchHook(m, response) ==
  LET r == AfterFetchLoop(m.plugins, 1, response, <<>>) IN
  Result(m, r.val, FALSE, "", r.events)

\* plugin o's onFetchError called with the error: it reports the error handled or not, or throws
CallFetchError(o) ==
  LET b == Plugin(o).onFetchError IN
  CASE b = "throw" -> [threw |-> TRUE, val |-> Undefined]
    [] b = "true" -> [threw |-> FALSE, val |-> True]
    [] OTHER -> [threw |-> FALSE, val |-> False]

RECURSIVE FetchErrorLoopThrowHandles(_, _, _, _)
\* the forEach with `handled = true` in the catch block: a throwing hook counts as handling
FetchErrorLoopThrowHandles(ps, i, handled, ev) ==
  IF i > Len(ps) THEN [val |-> handled, events |-> ev]
  ELSE IF Plugin(ps[i]).onFetchError = "absent"
  THEN FetchErrorLoopThrowHandles(ps, i + 1, handled, ev)
  ELSE LET r == CallFetchError(ps[i])
           e == Event("onFetchError", ps[i], "error", r.threw)
       IN IF r.threw \/ Truthy(r.val)
          THEN FetchErrorLoopThrowHandles(ps, i + 1, True, Append(ev, e))
          ELSE FetchErrorLoopThrowHandles(ps, i + 1, handled, Append(ev, e))

RECURSIVE FetchErrorLoop(_, _, _, _)
\* the forEach of applyFetchErrorHook: if (hook(error)) handled = true, exceptions caught
FetchErrorLoop(ps, i, handled, ev) ==
  IF i > Len(ps) THEN [val |-> handled, events |-> ev]
  ELSE IF Plugin(ps[i]).onFetchError = "absent" THEN FetchErrorLoop(ps, i + 1, handled, ev)
  ELSE LET r == CallFetchError(ps[i])
           e == Event("onFetchError", ps[i], "error", r.threw)
       IN IF ~r.threw /\ Truthy(r.val)
          THEN FetchErrorLoop(ps, i + 1, True, Append(ev, e))
          ELSE FetchErrorLoop(ps, i + 1, handled, Append(ev, e))

applyFetchErrorHook(m) ==
  LET r == FetchErrorLoop(m.plugins, 1, False, <<>>) IN
  Result(m, r.val, FALSE, "", r.events)

(***************************************************************************)
(* SpecPM: application code calling the plugin manager directly.           *)
(***************************************************************************)
\* what the last operation was, on what, and what came of it
Op(name, arg, input, r, before) ==
  [op |-> name, arg |-> arg, input |-> input, ret |-> r.ret, threw |-> r.threw,
   error |-> r.error, events |-> r.events, before |-> before]

NoOp ==
  [op |-> "none", arg |-> "", input |-> <<>>, ret |-> Undefined, threw |-> FALSE,
   error |-> "", events |-> <<>>, before |-> NewPluginManager]

\* the values handed to the data hooks: a product (cart, item, list) as the tags it carries
DataInputs == {<<>>, <<"p1">>}

IdleProvider ==
  /\ phase = "none"
  /\ props = Null
  /\ provider = Null

IdleCart ==
  /\ cartConfig = Null
  /\ cart = Null
  /\ rendered = Null
  /\ itemsDirty = FALSE
  /\ mounted = FALSE
  /\ nextId = 0
  /\ storage = Null
  /\ notified = Null
  /\ lastAdd = Null

InitPM ==
  /\ pm = NewPluginManager
  /\ last = NoOp
  /\ IdleProvider
  /\ IdleCart

PMRegister(o) ==
  LET r == register(pm, o) IN
  /\ Len(r.pm.plugins) <= MaxRegistry
  /\ pm' = r.pm
  /\ last' = Op("register", o, <<>>, r, pm)
  /\ UNCHANGED <<providerVars, cartVars>>

PMUnregister(id) ==
  LET r == unregister(pm, id) IN
  /\ pm' = r.pm
  /\ last' = Op("unregister", id, <<>>, r, pm)
  /\ UNCHANGED <<providerVars, cartVars>>

PMInitialize(c, t) ==
  LET r == initialize(pm, MergeConfig(c), MergeTheme(t)) IN
  /\ pm' = r.pm
  /\ last' = Op("initialize", "", <<MergeConfig(c), MergeTheme(t)>>, r, pm)
  /\ UNCHANGED <<providerVars, cartVars>>

PMApplyDataHook(kind, v) ==
  LET r == applyDataHook(pm, kind, v) IN
  /\ pm' = r.pm
  /\ last' = Op("applyDataHook", kind, v, r, pm)
  /\ UNCHANGED <<providerVars, cartVars>>

PMApplyBeforeRenderHooks(comp) ==
  LET r == applyBeforeRenderHooks(pm, comp) IN
  /\ pm' = r.pm
  /\ last' = Op("applyBeforeRenderHooks", comp, <<>>, r, pm)
  /\ UNCHANGED <<providerVars, cartVars>>

PMApplyAfterRenderHooks(comp) ==
  LET r == applyAfterRenderHooks(pm, comp) IN
  /\ pm' = r.pm
  /\ last' = Op("applyAfterRenderHooks", comp, <<>>, r, pm)
  /\ UNCHANGED <<providerVars, cartVars>>

PMApplyReplaceComponentHook(comp) ==
  LET r == applyReplaceComponentHook(pm, comp) IN
  /\ pm' = r.pm
  /\ last' = Op("applyReplaceComponentHook", comp, <<>>, r, pm)
  /\ UNCHANGED <<providerVars, cartVars>>

\* requests and responses handed to the fetch hooks, as the tags they carry
FetchUrls == {<<"u">>}
FetchOptions == {<<>>, <<"h">>}
FetchResponses == {<<"r">>}

PMApplyBeforeFetchHook(url, options) ==
  LET r == applyBeforeFetchHook(pm, url, options) IN
  /\ pm' = r.pm
  /\ last' = Op("applyBeforeFetchHook", "", <<url, options>>, r, pm)
  /\ UNCHANGED <<providerVars, cartVars>>

PMApplyAfterFetchHook(response) ==
  LET r == applyAfterFetchHook(pm, response) IN
  /\ pm' = r.pm
  /\ last' = Op("applyAfterFetchHook", "", <<response>>, r, pm)
  /\ UNCHANGED <<providerVars, cartVars>>

PMApplyFetchErrorHook ==
  LET r == applyFetchErrorHook(pm) IN
  /\ pm' = r.pm
  /\ last' = Op("applyFetchErrorHook", "", <<>>, r, pm)
  /\ UNCHANGED <<providerVars, cartVars>>

NextPM ==
  \/ \E o \in PluginObjects : PMRegister(o)
  \/ \E id \in PluginIds \cup {"zz"} : PMUnregister(id)
  \/ \E c \in UserConfigs, t \in UserThemes : PMInitialize(c, t)
  \/ \E kind \in DataHooks, v \in DataInputs : PMApplyDataHook(kind, v)
  \/ \E comp \in ComponentNames : PMApplyBeforeRenderHooks(comp)
  \/ \E comp \in ComponentNames : PMApplyAfterRenderHooks(comp)
  \/ \E comp \in ComponentNames : PMApplyReplaceComponentHook(comp)
  \/ \E url \in FetchUrls, options \in FetchOptions : PMApplyBeforeFetchHook(url, options)
  \/ \E response \in FetchResponses : PMApplyAfterFetchHook(response)
  \/ PMApplyFetchErrorHook

SpecPM == InitPM /\ [][NextPM]_vars

\* the objects of a sequence of hook invocations
Objs(ev) == [i \in 1..Len(ev) |-> ev[i].obj]

(***************************************************************************)
(* C1: applyProductHook, applyProductsHook, applyCartHook and              *)
(* applyCartItemHook return the left-to-right composition, in registration *)
(* order, of the plugins' data hook; a plugin without the hook, or whose   *)
(* hook throws, passes the value it received on unchanged.                 *)
(***************************************************************************)
RECURSIVE Composition(_, _, _)
\* (h_n o ... o h_1)(v), h_i the hook of the i-th registered plugin or the identity
Composition(ps, kind, v) ==
  IF ps = <<>> THEN v
  ELSE LET o == ps[Len(ps)]
           x == Composition(Front(ps), kind, v)
       IN IF Plugin(o).data[kind] \in {"absent", "throw"} THEN x ELSE Append(x, o)

C1_DataHooksCompose ==
  last.op = "applyDataHook" =>
    last.ret = Composition(pm.plugins, last.arg, last.input)

\* three plugins registered, the middle one's hook throws, and both others' tags arrive in order
C1_Witness ==
  /\ last.op = "applyDataHook"
  /\ last.arg = "onProductLoad"
  /\ pm.plugins = <<"A", "B", "C">>
  /\ last.ret = <<"p1", "A", "C">>
  /\ \E i \in 1..Len(last.events) : last.events[i].threw

(***************************************************************************)
(* C2: register with an id that is already registered fails with the       *)
(* duplicate-id error; the registry is what it was before the call (same   *)
(* object under the id, same order) and no hook of the rejected plugin is  *)
(* invoked.                                                                *)
(***************************************************************************)
C2_DuplicateRegisterRejected ==
  (last.op = "register" /\ Has(last.before, Plugin(last.arg).id)) =>
    /\ last.threw
    /\ last.error = "already registered"
    /\ pm = last.before
    /\ last.events = <<>>

\* A2 (id "a", with a mount hook) is offered to an initialized registry that holds A
C2_Witness ==
  /\ last.op = "register"
  /\ last.arg = "A2"
  /\ last.threw
  /\ pm.initialized
  /\ pm.plugins = <<"B", "A">>

(***************************************************************************)
(* C3: applyReplaceComponentHook returns the result of the last-registered *)
(* plugin whose replaceComponent hook for the component returns a non-null *)
(* result, null only if no plugin returns a non-null result, and consults  *)
(* no plugin registered before the winning one.                            *)
(***************************************************************************)
\* positions of the plugins whose hook for comp returns normally a non-null, non-undefined value
NonNullAt(ps, hook, comp) ==
  {i \in 1..Len(ps) :
     /\ Plugin(ps[i])[hook][comp] # "absent"
     /\ ~CallUiHook(ps[i], hook, comp).threw
     /\ NonNull(CallUiHook(ps[i], hook, comp).val)}

Max(S) == CHOOSE x \in S : \A y \in S : y <= x

C3_ReplaceLastNonNull ==
  last.op = "applyReplaceComponentHook" =>
    LET ps == pm.plugins
        cand == NonNullAt(ps, "replaceComponent", last.arg)
    IN IF cand = {} THEN last.ret = Null
       ELSE /\ last.ret = CallUiHook(ps[Max(cand)], "replaceComponent", last.arg).val
            /\ \A k \in 1..Len(last.events) :
                 \E i \in Max(cand)..Len(ps) : ps[i] = last.events[k].obj

(***************************************************************************)
(* C4: applyBeforeRenderHooks and applyAfterRenderHooks return every       *)
(* non-null, non-undefined value returned by the plugins' matching hook,   *)
(* in registration order; a hook that throws contributes nothing and does  *)
(* not stop the collection.                                                *)
(***************************************************************************)
RECURSIVE NonNullValues(_, _, _)
NonNullValues(ps, hook, comp) ==
  IF ps = <<>> THEN <<>>
  ELSE LET o == Head(ps) IN
       IF /\ Plugin(o)[hook][comp] # "absent"
          /\ ~CallUiHook(o, hook, comp).threw
          /\ NonNull(CallUiHook(o, hook, comp).val)
       THEN <<CallUiHook(o, hook, comp).val>> \o NonNullValues(Tail(ps), hook, comp)
       ELSE NonNullValues(Tail(ps), hook, comp)

C4_RenderCollectsNonNull ==
  /\ last.op = "applyBeforeRenderHooks" =>
       last.ret = NonNullValues(pm.plugins, "beforeRender", last.arg)
  /\ last.op = "applyAfterRenderHooks" =>
       last.ret = NonNullValues(pm.plugins, "afterRender", last.arg)

(***************************************************************************)
(* C5: no exception raised inside a hook leaves a PluginManager operation: *)
(* the only operation that throws is a register refused for its id, and    *)
(* every operation invokes the hook of every plugin it is about, also      *)
(* after an earlier hook threw.                                            *)
(***************************************************************************)
HasMount(o) == Plugin(o).onMount # "absent"
HasUnmount(o) == Plugin(o).onUnmount # "absent"

\* the reversed registry from its start up to the first plugin whose replacement is taken
RECURSIVE UpToTaken(_, _)
UpToTaken(rs, comp) ==
  IF rs = <<>> THEN <<>>
  ELSE LET o == Head(rs) IN
       IF Plugin(o).replaceComponent[comp] = "absent" THEN UpToTaken(Tail(rs), comp)
       ELSE IF Plugin(o).replaceComponent[comp] \in {"element"} THEN <<o>>
       ELSE <<o>> \o UpToTaken(Tail(rs), comp)

C5_HookExceptionsContained ==
  /\ last.threw => (last.op = "register" /\ last.error # "" /\ last.events = <<>>)
  /\ last.op = "initialize" =>
       Objs(last.events) = SelectObjs(pm.plugins, {o \in PluginObjects : HasMount(o)})
  /\ (last.op = "register" /\ ~last.threw /\ last.before.initialized) =>
       Objs(last.events) = SelectObjs(<<last.arg>>, {o \in PluginObjects : HasMount(o)})
  /\ (last.op = "unregister" /\ Has(last.before, last.arg)) =>
       /\ ~Has(pm, last.arg)
       /\ Objs(last.events) =
            SelectObjs(last.before.plugins,
                       {o \in PluginObjects : Plugin(o).id = last.arg /\ HasUnmount(o)})
  /\ last.op = "applyDataHook" =>
       Objs(last.events) =
         SelectObjs(pm.plugins, {o \in PluginObjects : Plugin(o).data[last.arg] # "absent"})
  /\ last.op = "applyBeforeRenderHooks" =>
       Objs(last.events) =
         SelectObjs(pm.plugins,
                    {o \in PluginObjects : Plugin(o).beforeRender[last.arg] # "absent"})
  /\ last.op = "applyAfterRenderHooks" =>
       Objs(last.events) =
         SelectObjs(pm.plugins,
                    {o \in PluginObjects : Plugin(o).afterRender[last.arg] # "absent"})
  /\ last.op = "applyReplaceComponentHook" =>
       Objs(last.events) = UpToTaken(Reverse(pm.plugins), last.arg)

\* initialize over three plugins: the second mount hook throws and the third is still invoked
C5_Witness ==
  /\ last.op = "initialize"
  /\ ~last.threw
  /\ Len(last.events) = 3
  /\ last.events[2].threw
  /\ last.events[3].obj = "D"

(***************************************************************************)
(* ShopcoreProviderClass: the component that owns one PluginManager and    *)
(* drives it from its lifecycle methods.                                   *)
(***************************************************************************)
\* the arrays the application passes as the `plugins` prop, by reference: L1 and L2 are two
\* arrays with equal contents; "undefined" is the prop left out
PluginListRefs == {"undefined", "L1", "L2", "L3", "L4"}

PluginList(ref) ==
  CASE ref = "L1" -> <<"A", "B">>
    [] ref = "L2" -> <<"A", "B">>
    [] ref = "L3" -> <<"C", "A">>
    [] ref = "L4" -> <<"A", "A2">>
    [] OTHER -> <<>>

Props(c, f, t, l) ==
  [config |-> UserConfig(c, f), theme |-> UserTheme(t), plugins |-> l]

\* the props the application renders the provider with: each differs from the first in the
\* plugin list (reference only, contents, duplicate ids, left out), in the config (a
\* function-valued field only, a serialisable field), in the theme, or in all three
ProviderProps ==
  {Props("absent", "absent", "absent", "L1"),
   Props("absent", "absent", "absent", "L2"),
   Props("absent", "absent", "absent", "L3"),
   Props("absent", "absent", "absent", "L4"),
   Props("absent", "absent", "absent", "undefined"),
   Props("absent", "fnA", "absent", "L1"),
   Props("EUR", "absent", "absent", "L1"),
   Props("absent", "absent", "red", "L1"),
   Props("EUR", "absent", "red", "L3"),
   [config |-> CompleteConfig, theme |-> UserTheme("absent"), plugins |-> "L3"]}

\* the constructor: a new manager, the merged config and theme
Construct(p) == [config |-> MergeConfig(p.config), theme |-> MergeTheme(p.theme)]

RECURSIVE UnregisterEach(_, _, _)
\* this.pluginManager.getAllPlugins().forEach(plugin => this.pluginManager.unregister(plugin.id))
UnregisterEach(m, snapshot, ev) ==
  IF snapshot = <<>> THEN Result(m, Undefined, FALSE, "", ev)
  ELSE LET r == unregister(m, Plugin(Head(snapshot)).id) IN
       IF r.threw THEN Result(r.pm, Undefined, TRUE, r.error, ev \o r.events)
       ELSE UnregisterEach(r.pm, Tail(snapshot), ev \o r.events)

RECURSIVE RegisterEach(_, _, _)
\* plugins.forEach(plugin => this.pluginManager.register(plugin)): an exception ends the loop
RegisterEach(m, list, ev) ==
  IF list = <<>> THEN Result(m, Undefined, FALSE, "", ev)
  ELSE LET r == register(m, Head(list)) IN
       IF r.threw THEN Result(r.pm, Undefined, TRUE, r.error, ev \o r.events)
       ELSE RegisterEach(r.pm, Tail(list), ev \o r.events)

\* clear the registry, register the plugins of the props, initialize the manager
ReloadPlugins(m, list, config, theme) ==
  LET u == UnregisterEach(m, m.plugins, <<>>) IN
  IF u.threw THEN u
  ELSE LET g == RegisterEach(u.pm, list, u.events) IN
       IF g.threw THEN g
       ELSE LET i == initialize(g.pm, config, theme) IN
            Result(i.pm, Undefined, i.threw, i.error, g.events \o i.events)

\* the test of componentDidUpdate: the local `plugins` is props.plugins or a fresh [],
\* compared by reference with the previous prop; config and theme by their JSON text
ChangeDetected(prev, new) ==
  \/ new.plugins = "undefined"
  \/ new.plugins # prev.plugins
  \/ Stringify(new.config) # Stringify(prev.config)
  \/ Stringify(new.theme) # Stringify(prev.theme)

RECURSIVE UnregisterProps(_, _, _)
\* componentWillUnmount: plugins.forEach(plugin => { if (plugin.id) unregister(plugin.id) })
UnregisterProps(m, list, ev) ==
  IF list = <<>> THEN Result(m, Undefined, FALSE, "", ev)
  ELSE IF Plugin(Head(list)).id = "" THEN UnregisterProps(m, Tail(list), ev)
  ELSE LET r == unregister(m, Plugin(Head(list)).id) IN
       IF r.threw THEN Result(r.pm, Undefined, TRUE, r.error, ev \o r.events)
       ELSE UnregisterProps(r.pm, Tail(list), ev \o r.events)

\* a change of the config, theme or plugin list prop between two renders
PropsChanged(prev, new) ==
  \/ new.config # prev.config
  \/ new.theme # prev.theme
  \/ new.plugins # prev.plugins

ProviderOp(name, arg, r, before, changed) ==
  [op |-> name, arg |-> arg, input |-> <<>>, ret |-> r.ret, threw |-> r.threw,
   error |-> r.error, events |-> r.events, before |-> before, changed |-> changed]

InitProvider ==
  /\ props \in ProviderProps
  /\ provider = Construct(props)
  /\ pm = NewPluginManager
  /\ phase = "constructed"
  /\ last = ProviderOp("constructor", "", Result(pm, Undefined, FALSE, "", <<>>), pm, FALSE)
  /\ IdleCart

ComponentDidMount ==
  /\ phase = "constructed"
  /\ LET r == ReloadPlugins(pm, PluginList(props.plugins), provider.config, provider.theme) IN
     /\ pm' = r.pm
     /\ phase' = IF r.threw THEN "failed" ELSE "mounted"
     /\ last' = ProviderOp("componentDidMount", "", r, pm, FALSE)
  /\ UNCHANGED <<props, provider, cartVars>>

\* a re-render with the props new; componentDidUpdate(prevProps) runs with this.props = new
ComponentDidUpdate(new) ==
  /\ phase = "mounted"
  /\ props' = new
  /\ IF ChangeDetected(props, new)
     THEN LET c == Construct(new)
              r == ReloadPlugins(pm, PluginList(new.plugins), c.config, c.theme)
          IN /\ provider' = c
             /\ pm' = r.pm
             /\ phase' = IF r.threw THEN "failed" ELSE "mounted"
             /\ last' = ProviderOp("componentDidUpdate", "", r, pm, PropsChanged(props, new))
     ELSE /\ UNCHANGED <<provider, pm, phase>>
          /\ last' = ProviderOp("componentDidUpdate", "",
                                Result(pm, Undefined, FALSE, "", <<>>), pm,
                                PropsChanged(props, new))
  /\ UNCHANGED cartVars

\* an uncaught error of a lifecycle method unmounts the tree as well
ComponentWillUnmount ==
  /\ phase \in {"mounted", "failed"}
  /\ LET r == UnregisterProps(pm, PluginList(props.plugins), <<>>) IN
     /\ pm' = r.pm
     /\ last' = ProviderOp("componentWillUnmount", "", r, pm, FALSE)
  /\ phase' = "unmounted"
  /\ UNCHANGED <<props, provider, cartVars>>

\* application code using the manager of the context value
ManagerRegister(o) ==
  /\ phase = "mounted"
  /\ LET r == register(pm, o) IN
     /\ Len(r.pm.plugins) <= MaxRegistry
     /\ pm' = r.pm
     /\ last' = ProviderOp("register", o, r, pm, FALSE)
  /\ UNCHANGED <<providerVars, cartVars>>

ManagerUnregister(id) ==
  /\ phase = "mounted"
  /\ LET r == unregister(pm, id) IN
     /\ pm' = r.pm
     /\ last' = ProviderOp("unregister", id, r, pm, FALSE)
  /\ UNCHANGED <<providerVars, cartVars>>

NextProvider ==
  \/ ComponentDidMount
  \/ \E new \in ProviderProps : ComponentDidUpdate(new)
  \/ ComponentWillUnmount
  \/ \E o \in PluginObjects : ManagerRegister(o)
  \/ \E id \in PluginIds : ManagerUnregister(id)

SpecProvider == InitProvider /\ [][NextProvider]_vars

\* the plugins whose hook `hook` the events invoke, in order
Invoked(ev, hook) ==
  Objs(SelectSeq(ev, LAMBDA e : e.hook = hook))

C7_TeardownUnmountsAll ==
  last.op = "componentWillUnmount" =>
    /\ pm.plugins = <<>>
    /\ Invoked(last.events, "onUnmount") =
         SelectObjs(last.before.plugins, {o \in PluginObjects : HasUnmount(o)})

(***************************************************************************)
(* The cart store: cartReducer, the helpers of cart/utils.ts and the       *)
(* CartProvider component.                                                 *)
(***************************************************************************)
\* an optional number: a key that is absent (undefined), or a number
Absent == [set |-> FALSE]
Num(n) == [set |-> TRUE, v |-> n]
\* `x || ...` on an optional number: undefined and 0 are falsy
TruthyNum(x) == x.set /\ x.v # 0

\* the products of the shop: p1 comes plain or in variant v1, p2 only plain
CartProducts == {"p1", "p2"}
CartVariants(p) == IF p = "p1" THEN {"none", "v1"} ELSE {"none"}
ProductPrice(p) == [amount |-> IF p = "p1" THEN 10 ELSE 5, currency |-> "USD"]
VariantPrice(v) == [amount |-> 15, currency |-> "USD"]

initialState ==
  [items |-> <<>>, isOpen |-> FALSE,
   totals |-> [subtotal |-> 0, tax |-> Absent, total |-> 0, currency |-> "USD"]]

cartReducer(state, action) ==
  CASE action.type = "SET_ITEMS" -> [state EXCEPT !.items = action.payload]
    [] action.type = "ADD_ITEM" -> [state EXCEPT !.items = Append(state.items, action.payload)]
    [] action.type = "REMOVE_ITEM" ->
         [state EXCEPT !.items = SelectSeq(state.items, LAMBDA item : item.id # action.payload)]
    [] action.type = "UPDATE_QUANTITY" ->
         [state EXCEPT !.items =
            [i \in 1..Len(state.items) |->
               IF state.items[i].id = action.payload.itemId
               THEN [state.items[i] EXCEPT !.quantity = action.payload.quantity]
               ELSE state.items[i]]]
    [] action.type = "UPDATE_ITEM" ->
         [state EXCEPT !.items =
            [i \in 1..Len(state.items) |->
               IF state.items[i].id = action.payload.itemId /\ action.payload.updates.set
               THEN [state.items[i] EXCEPT !.quantity = action.payload.updates.v]
               ELSE state.items[i]]]
    [] action.type = "CLEAR_CART" -> [state EXCEPT !.items = <<>>]
    [] action.type = "SET_IS_OPEN" -> [state EXCEPT !.isOpen = action.payload]
    [] action.type = "UPDATE_TOTALS" -> [state EXCEPT !.totals = action.payload]
    [] OTHER -> state

RECURSIVE SumItems(_)
\* items.reduce((total, item) => total + item.price.amount * item.quantity, 0)
SumItems(items) ==
  IF items = <<>> THEN 0
  ELSE SumItems(Front(items)) + items[Len(items)].price.amount * items[Len(items)].quantity

\* calculateCartTotals(items, taxRate = 0); the rate is held in percent
calculateCartTotals(items, taxRate) ==
  LET rate == IF taxRate.set THEN taxRate.v ELSE 0
      subtotal == SumItems(items)
      tax == IF rate > 0 THEN (subtotal * rate) \div 100 ELSE 0
  IN [subtotal |-> subtotal,
      tax |-> IF tax # 0 THEN Num(tax) ELSE Absent,
      total |-> subtotal + tax,
      currency |-> IF items # <<>> THEN items[1].price.currency ELSE "USD"]

\* a caller-supplied pricing.calculateTotals: the subtotal plus a flat shipping fee of 5
CustomTotals(items) ==
  [subtotal |-> SumItems(items), tax |-> Absent, total |-> SumItems(items) + 5,
   currency |-> "EUR"]

areCartItemsEqual(item1, item2) ==
  IF item1.product # item2.product THEN FALSE
  ELSE IF item1.variant # "none" /\ item2.variant # "none" THEN item1.variant = item2.variant
  ELSE item1.variant = "none" /\ item2.variant = "none"

\* createCartItem with the id generateCartItemId returns
createCartItem(id, product, quantity, variant) ==
  [id |-> id, product |-> product, variant |-> variant, quantity |-> quantity,
   price |-> IF variant # "none" THEN VariantPrice(variant) ELSE ProductPrice(product)]

\* validateQuantity(quantity, min = 1, max = Infinity)
\* a validateQuantity that accepts every quantity
validateQuantityAny(quantity, min, max) == TRUE

validateQuantity(quantity, min, max) ==
  /\ quantity >= (IF min.set THEN min.v ELSE 1)
  /\ (max.set => quantity <= max.v)

RECURSIVE mergeKeepFirst(_, _)
\* mergeCartItems that drops a repeated item instead of adding its quantity
mergeKeepFirst(items, mergedItems) ==
  IF items = <<>> THEN mergedItems
  ELSE LET item == Head(items)
           found == {i \in 1..Len(mergedItems) : areCartItemsEqual(mergedItems[i], item)}
       IN IF found # {} THEN mergeKeepFirst(Tail(items), mergedItems)
          ELSE mergeKeepFirst(Tail(items), Append(mergedItems, item))

RECURSIVE mergeInto(_, _)
\* the forEach of mergeCartItems over the items left, mergedItems being built
mergeInto(items, mergedItems) ==
  IF items = <<>> THEN mergedItems
  ELSE LET item == Head(items)
           found == {i \in 1..Len(mergedItems) : areCartItemsEqual(mergedItems[i], item)}
       IN IF found # {}
          THEN LET k == CHOOSE i \in found : \A j \in found : i <= j IN
               mergeInto(Tail(items),
                         [mergedItems EXCEPT ![k].quantity = @ + item.quantity])
          ELSE mergeInto(Tail(items), Append(mergedItems, item))

mergeCartItems(items) == mergeInto(items, <<>>)

\* JSON.stringify(state) then JSON.parse: a key whose value is undefined (totals.tax without
\* tax) is left out of the text, and reads as undefined again after parsing
ToJson(state) ==
  [items |-> state.items, isOpen |-> state.isOpen,
   totals |-> IF state.totals.tax.set THEN state.totals
              ELSE [k \in {"subtotal", "total", "currency"} |-> state.totals[k]]]

FromJson(text) ==
  [items |-> text.items, isOpen |-> text.isOpen,
   totals |-> [subtotal |-> text.totals.subtotal,
               tax |-> IF "tax" \in DOMAIN text.totals THEN text.totals.tax ELSE Absent,
               total |-> text.totals.total, currency |-> text.totals.currency]]

\* persistCart: storage.setItem(key, JSON.stringify(state))
persistCart(state) == ToJson(state)

\* loadCart: data ? JSON.parse(data) : null
loadCart(stored) == IF stored = Null THEN Null ELSE FromJson(stored)

(***************************************************************************)
(* The config prop of CartProvider.                                        *)
(***************************************************************************)
CartConfig(storageType, min, max, merge, calc, taxRate, guard, events) ==
  [storage |-> storageType,
   minQuantityPerItem |-> min, maxQuantityPerItem |-> max, mergeSameItems |-> merge,
   calculateTotals |-> calc, taxRate |-> taxRate, shouldIncludeTax |-> "absent",
   onBeforeAddItem |-> guard, onBeforeRemoveItem |-> guard, onBeforeUpdateQuantity |-> guard,
   onAfterAddItem |-> events, onCartUpdate |-> events, onError |-> events]

\* what a cart action did
CartOp(name, r) ==
  [op |-> name, arg |-> r.arg, threw |-> r.threw, error |-> r.error,
   cancelled |-> r.cancelled, added |-> r.added, item |-> r.item,
   afterAdd |-> r.afterAdd, onError |-> r.threw /\ cartConfig.onError, prev |-> r.prev,
   guard |-> r.guard]

Outcome(arg, threw, error, cancelled, added, item, afterAdd, prev) ==
  [arg |-> arg, threw |-> threw, error |-> error, cancelled |-> cancelled, added |-> added,
   item |-> item, afterAdd |-> afterAdd, prev |-> prev, guard |-> FALSE]

Plain(arg) == Outcome(arg, FALSE, "", FALSE, FALSE, Null, Null, Null)
Thrown(arg, error) == Outcome(arg, TRUE, error, FALSE, FALSE, Null, Null, Null)
Cancelled(arg) == Outcome(arg, FALSE, "", TRUE, FALSE, Null, Null, Null)

\* `await config?.events?.onBefore...?.(...)`: the guard is absent, throws, or resolves to
\* false, true or undefined
Guards == {"absent", "throw", "false", "true", "undefined"}
GuardThrows(g) == g = "throw"

\* a test of the guard's result by `!canAdd` in place of `canAdd === false`
GuardCancelsFalsy(g) == g \in {"false", "undefined"}

GuardCancels(g) == g = "false"

\* the outcome of the part of an action that starts with the call of its guard
Guarded(g, r) == [r EXCEPT !.out.guard = (g # "absent")]

RECURSIVE SumQuantity(_)
SumQuantity(items) ==
  IF items = <<>> THEN 0 ELSE items[1].quantity + SumQuantity(Tail(items))

\* the lines of the items that hold the product in the variant, and their quantity
LinesOf(items, p, v) ==
  SelectSeq(items, LAMBDA item : areCartItemsEqual(item, [product |-> p, variant |-> v]))

Held(items, p, v) == SumQuantity(LinesOf(items, p, v))

(***************************************************************************)
(* The actions of CartProvider.  An action of the `actions` object reads   *)
(* the state of the render that built it (rendered) and dispatches to the  *)
(* current state (cart).                                                   *)
(***************************************************************************)
\* the quantities a caller passes; the item ids it passes are that of the saved item (0),
\* those generated and one never generated
QuantityOptions == {Absent, Num(-1), Num(0), Num(MaxQty)}
UpdateQuantities == {0, MaxQty}
UpdateOptions == {Absent, Num(0)}
PricedQuantityOptions == {Absent, Num(MaxQty)}
GuardedUpdateQuantities == 0..MaxQty

addItem(p, v, qa) ==
  LET arg == [product |-> p, variant |-> v, quantity |-> qa]
      quantity == IF TruthyNum(qa) THEN qa.v ELSE 1
  IN Guarded(cartConfig.onBeforeAddItem,
     IF GuardThrows(cartConfig.onBeforeAddItem)
     THEN [state |-> cart, out |-> Thrown(arg, "guard")]
     ELSE IF GuardCancels(cartConfig.onBeforeAddItem)
     THEN [state |-> cart, out |-> Cancelled(arg)]
     ELSE IF /\ TruthyNum(cartConfig.maxQuantityPerItem) \/ TruthyNum(cartConfig.minQuantityPerItem)
             /\ ~validateQuantity(quantity, cartConfig.minQuantityPerItem,
                                  cartConfig.maxQuantityPerItem)
     THEN [state |-> cart, out |-> Thrown(arg, "Invalid quantity")]
     ELSE LET newItem == createCartItem(nextId + 1, p, quantity, v)
              added == cartReducer(cart, [type |-> "ADD_ITEM", payload |-> newItem])
              merged == cartReducer(added,
                                    [type |-> "SET_ITEMS",
                                     payload |-> mergeCartItems(Append(rendered.items, newItem))])
          IN [state |-> IF cartConfig.mergeSameItems THEN merged ELSE added,
              out |-> Outcome(arg, FALSE, "", FALSE, TRUE, newItem,
                              IF cartConfig.onAfterAddItem THEN newItem ELSE Null, lastAdd)])

removeItem(itemId) ==
  Guarded(cartConfig.onBeforeRemoveItem,
  IF GuardThrows(cartConfig.onBeforeRemoveItem)
  THEN [state |-> cart, out |-> Thrown([itemId |-> itemId], "guard"), dispatched |-> FALSE]
  ELSE IF GuardCancels(cartConfig.onBeforeRemoveItem)
  THEN [state |-> cart, out |-> Cancelled([itemId |-> itemId]), dispatched |-> FALSE]
  ELSE [state |-> cartReducer(cart, [type |-> "REMOVE_ITEM", payload |-> itemId]),
        out |-> Plain([itemId |-> itemId]), dispatched |-> TRUE])

\* updateQuantity from the call of the guard on
updateFound(itemId, quantity, validate) ==
  LET arg == [itemId |-> itemId, quantity |-> quantity, validate |-> validate]
  IN Guarded(cartConfig.onBeforeUpdateQuantity,
     IF GuardThrows(cartConfig.onBeforeUpdateQuantity)
     THEN [state |-> cart, out |-> Thrown(arg, "guard"), dispatched |-> FALSE]
     ELSE IF GuardCancels(cartConfig.onBeforeUpdateQuantity)
     THEN [state |-> cart, out |-> Cancelled(arg), dispatched |-> FALSE]
     ELSE IF validate /\ ~validateQuantity(quantity, cartConfig.minQuantityPerItem,
                                           cartConfig.maxQuantityPerItem)
     THEN [state |-> cart, out |-> Thrown(arg, "Invalid quantity"), dispatched |-> FALSE]
     ELSE [state |-> cartReducer(cart, [type |-> "UPDATE_QUANTITY",
                                        payload |-> [itemId |-> itemId, quantity |-> quantity]]),
           out |-> Plain(arg), dispatched |-> TRUE])

\* an updateQuantity that does not look the item up
updateQuantityAnyId(itemId, quantity, validate) == updateFound(itemId, quantity, validate)

updateQuantity(itemId, quantity, validate) ==
  LET arg == [itemId |-> itemId, quantity |-> quantity, validate |-> validate]
      found == \E i \in 1..Len(rendered.items) : rendered.items[i].id = itemId
  IN IF ~found
     THEN [state |-> cart, out |-> Thrown(arg, "Item not found"), dispatched |-> FALSE]
     ELSE updateFound(itemId, quantity, validate)

updateItem(itemId, updates) ==
  [state |-> cartReducer(cart, [type |-> "UPDATE_ITEM",
                                payload |-> [itemId |-> itemId, updates |-> updates]]),
   out |-> Plain([itemId |-> itemId, updates |-> updates]), dispatched |-> TRUE]

clearCart ==
  [state |-> cartReducer(cart, [type |-> "CLEAR_CART"]), out |-> Plain(Null),
   dispatched |-> TRUE]

IdleManager == UNCHANGED <<pm, phase, props, provider>>

\* the render has caught up with every dispatch: the `actions` object the caller holds was
\* built from the current state
Settled == mounted /\ cart = rendered /\ ~itemsDirty

\* an action that dispatches to the items
ItemsAction(name, r) ==
  /\ Settled
  /\ cart' = r.state
  /\ itemsDirty' = (itemsDirty \/ r.dispatched)
  /\ lastAdd' = Null
  /\ last' = CartOp(name, r.out)
  /\ UNCHANGED <<cartConfig, rendered, mounted, nextId, storage, notified>>
  /\ IdleManager

AddItemCall(p, v, qa) ==
  /\ LET r == addItem(p, v, qa) IN
     /\ r.out.added => nextId < MaxAdds
     /\ cart' = r.state
     /\ nextId' = IF r.out.added THEN nextId + 1 ELSE nextId
     /\ itemsDirty' = (itemsDirty \/ r.out.added)
     /\ lastAdd' = IF r.out.added
                   THEN [product |-> p, variant |-> v, requested |-> qa,
                         id |-> r.out.item.id, held |-> Held(cart.items, p, v),
                         current |-> (cart.items = rendered.items), rendered |-> FALSE]
                   ELSE Null
     /\ last' = CartOp("addItem", r.out)
  /\ UNCHANGED <<cartConfig, rendered, mounted, storage, notified>>
  /\ IdleManager

\* addItem called on the `actions` object of the current render
AddItem(p, v, qa) == Settled /\ AddItemCall(p, v, qa)

\* addItem called again on the same `actions` object, before the render of the item added
AddItemAgain(p, v, qa) ==
  /\ mounted
  /\ last.op = "addItem"
  /\ last.added
  /\ AddItemCall(p, v, qa)

RemoveItem(itemId) == ItemsAction("removeItem", removeItem(itemId))

UpdateQuantity(itemId, quantity, validate) ==
  ItemsAction("updateQuantity", updateQuantity(itemId, quantity, validate))

UpdateItem(itemId, updates) == ItemsAction("updateItem", updateItem(itemId, updates))

ClearCart == ItemsAction("clearCart", clearCart)

\* an action that dispatches SET_IS_OPEN
VisibilityAction(name, isOpen) ==
  /\ Settled
  /\ cart' = cartReducer(cart, [type |-> "SET_IS_OPEN", payload |-> isOpen])
  /\ last' = CartOp(name, Plain([isOpen |-> isOpen]))
  /\ UNCHANGED <<cartConfig, rendered, itemsDirty, mounted, nextId, storage, notified, lastAdd>>
  /\ IdleManager

OpenCart == VisibilityAction("openCart", TRUE)
CloseCart == VisibilityAction("closeCart", FALSE)
ToggleCart == VisibilityAction("toggleCart", ~rendered.isOpen)

\* openCart, closeCart or toggleCart called on the `actions` object the caller holds, which
\* is the one of the last render whether or not a dispatch has followed it
VisibilityCall(name, isOpen) ==
  /\ mounted
  /\ cart' = cartReducer(cart, [type |-> "SET_IS_OPEN", payload |-> isOpen])
  /\ last' = CartOp(name, Plain([isOpen |-> isOpen, before |-> cart]))
  /\ UNCHANGED <<cartConfig, rendered, itemsDirty, mounted, nextId, storage, notified, lastAdd>>
  /\ IdleManager

OpenCartCall == VisibilityCall("openCart", TRUE)
CloseCartCall == VisibilityCall("closeCart", FALSE)
ToggleCartCall == VisibilityCall("toggleCart", ~rendered.isOpen)

\* a totals effect that keeps the totals of the state instead of computing them
TotalsEffectKeep(state) ==
  [totals |-> state.totals,
   storage |-> IF cartConfig.storage # "none" THEN persistCart(state) ELSE storage,
   notified |-> IF cartConfig.onCartUpdate THEN state ELSE notified]

\* the totals effect, run with the state of the render it belongs to
TotalsEffect(state) ==
  LET totals == IF cartConfig.calculateTotals = "custom" THEN CustomTotals(state.items)
                ELSE calculateCartTotals(state.items, cartConfig.taxRate)
  IN [totals |-> totals,
      storage |-> IF cartConfig.storage # "none" THEN persistCart(state) ELSE storage,
      notified |-> IF cartConfig.onCartUpdate THEN state ELSE notified]

\* the first render and its effects: the load effect, then the totals effect, both with
\* the initial state
Mount ==
  /\ ~mounted
  /\ LET savedCart == IF cartConfig.storage # "none" THEN loadCart(storage) ELSE Null
         loaded == IF savedCart # Null
                   THEN cartReducer(cart, [type |-> "SET_ITEMS", payload |-> savedCart.items])
                   ELSE cart
         e == TotalsEffect(cart)
     IN /\ cart' = cartReducer(loaded, [type |-> "UPDATE_TOTALS", payload |-> e.totals])
        /\ itemsDirty' = (savedCart # Null)
        /\ storage' = e.storage
        /\ notified' = e.notified
        /\ last' = CartOp("mount", Plain([loaded |-> savedCart # Null]))
  /\ mounted' = TRUE
  /\ UNCHANGED <<cartConfig, rendered, nextId, lastAdd>>
  /\ IdleManager

\* a render whose totals effect updates the totals but persists and notifies nothing
RenderWithoutPersist ==
  /\ mounted
  /\ cart # rendered \/ itemsDirty
  /\ LET e == TotalsEffect(cart) IN
     /\ cart' = IF itemsDirty
                THEN cartReducer(cart, [type |-> "UPDATE_TOTALS", payload |-> e.totals])
                ELSE cart
     /\ last' = CartOp("render", Plain([effect |-> itemsDirty]))
  /\ rendered' = cart'
  /\ itemsDirty' = FALSE
  /\ lastAdd' = IF lastAdd = Null THEN Null ELSE [lastAdd EXCEPT !.rendered = TRUE]
  /\ UNCHANGED <<cartConfig, mounted, nextId, storage, notified>>
  /\ IdleManager

\* a render of the dispatched state, the totals effect when the items are a new array, and
\* the render of the totals it dispatched
Render ==
  /\ mounted
  /\ cart # rendered \/ itemsDirty
  /\ LET e == TotalsEffect(cart) IN
     /\ cart' = IF itemsDirty
                THEN cartReducer(cart, [type |-> "UPDATE_TOTALS", payload |-> e.totals])
                ELSE cart
     /\ storage' = IF itemsDirty THEN e.storage ELSE storage
     /\ notified' = IF itemsDirty THEN e.notified ELSE notified
     /\ last' = CartOp("render", Plain([effect |-> itemsDirty]))
  /\ rendered' = cart'
  /\ itemsDirty' = FALSE
  /\ lastAdd' = IF lastAdd = Null THEN Null ELSE [lastAdd EXCEPT !.rendered = TRUE]
  /\ UNCHANGED <<cartConfig, mounted, nextId>>
  /\ IdleManager

\* the configs of the carts kept in memory only: behavior.mergeSameItems with
\* minQuantityPerItem and maxQuantityPerItem absent, a minimum of 2, a maximum of 2
CartConfigs ==
  {CartConfig("none", Absent, Absent, TRUE, "absent", Absent, "absent", FALSE),
   CartConfig("none", Absent, Absent, FALSE, "absent", Absent, "absent", FALSE),
   CartConfig("none", Num(2), Absent, FALSE, "absent", Absent, "absent", FALSE),
   CartConfig("none", Absent, Num(2), TRUE, "absent", Absent, "absent", FALSE)}

\* the configs of the carts kept in localStorage, with the events of CartEvents set
StoredCartConfigs ==
  {CartConfig("localStorage", Absent, Absent, TRUE, "absent", Absent, "absent", TRUE),
   CartConfig("localStorage", Absent, Absent, FALSE, "absent", Absent, "absent", TRUE),
   CartConfig("none", Absent, Absent, TRUE, "absent", Absent, "absent", TRUE)}

\* the configs of the carts with pricing set: a taxRate of 20 percent with shouldIncludeTax
\* true and false, and a caller-supplied calculateTotals for a cart kept in localStorage
PricedConfig(storageType, calc, taxRate, include) ==
  [CartConfig(storageType, Absent, Absent, TRUE, calc, taxRate, "absent", FALSE)
     EXCEPT !.shouldIncludeTax = include]

\* the configs of the carts with guards: onBeforeAddItem set, or onBeforeRemoveItem and
\* onBeforeUpdateQuantity set, or none; a maximum of 1, the onAfterAddItem and onError events
GuardedConfig(add, others) ==
  [CartConfig("none", Absent, Num(1), TRUE, "absent", Absent, others, TRUE)
     EXCEPT !.onBeforeAddItem = add, !.onCartUpdate = FALSE]

GuardedCartConfigs ==
  {GuardedConfig(g, "absent") : g \in Guards} \cup {GuardedConfig("absent", g) : g \in Guards}

PricedCartConfigs ==
  {PricedConfig("none", "absent", Num(20), "true"),
   PricedConfig("none", "absent", Num(20), "false"),
   PricedConfig("localStorage", "custom", Num(20), "true")}

\* a cart an earlier session left in storage: one unit of p1
SavedCart ==
  ToJson([initialState EXCEPT
            !.items = <<createCartItem(0, "p1", 1, "none")>>,
            !.totals = calculateCartTotals(<<createCartItem(0, "p1", 1, "none")>>, Absent)])

InitCartWith(configs) ==
  /\ cartConfig \in configs
  /\ cart = initialState
  /\ rendered = initialState
  /\ itemsDirty = FALSE
  /\ mounted = FALSE
  /\ nextId = 0
  /\ storage \in IF cartConfig.storage # "none" THEN {Null, SavedCart} ELSE {Null}
  /\ notified = Null
  /\ lastAdd = Null
  /\ last = NoOp
  /\ pm = NewPluginManager
  /\ IdleProvider

InitCart == InitCartWith(CartConfigs)

InitStoredCart == InitCartWith(StoredCartConfigs)

InitPricedCart == InitCartWith(PricedCartConfigs)

InitGuardedCart == InitCartWith(GuardedCartConfigs)

\* the caller of SpecCart calls an action of the `actions` object the last render built
NextCart ==
  \/ Mount
  \/ Render
  \/ \E p \in CartProducts : \E v \in CartVariants(p) : \E qa \in QuantityOptions :
       AddItem(p, v, qa)
  \/ \E itemId \in 0..(nextId + 1) : RemoveItem(itemId)
  \/ \E itemId \in 0..(nextId + 1) : \E q \in UpdateQuantities : \E validate \in BOOLEAN :
       UpdateQuantity(itemId, q, validate)
  \/ \E itemId \in 0..(nextId + 1) : \E u \in UpdateOptions : UpdateItem(itemId, u)
  \/ ClearCart
  \/ OpenCart
  \/ CloseCart
  \/ ToggleCart

SpecCart == InitCart /\ [][NextCart]_vars

\* the caller of SpecStoredCart fills and empties a cart that outlives the session; it may
\* add again before the render of the item it added
NextStoredCart ==
  \/ Mount
  \/ Render
  \/ \E p \in CartProducts : \E v \in CartVariants(p) : \E qa \in QuantityOptions :
       AddItem(p, v, qa)
  \/ \E p \in CartProducts : \E v \in CartVariants(p) : \E qa \in QuantityOptions :
       AddItemAgain(p, v, qa)
  \/ \E itemId \in 0..(nextId + 1) : RemoveItem(itemId)
  \/ ClearCart

SpecStoredCart == InitStoredCart /\ [][NextStoredCart]_vars

\* the caller of SpecPricedCart changes the item list in every way the actions offer
NextPricedCart ==
  \/ Mount
  \/ Render
  \/ \E p \in CartProducts : \E v \in CartVariants(p) : \E qa \in PricedQuantityOptions :
       AddItem(p, v, qa)
  \/ \E itemId \in 0..(nextId + 1) : RemoveItem(itemId)
  \/ \E itemId \in 0..(nextId + 1) : \E q \in UpdateQuantities : \E validate \in BOOLEAN :
       UpdateQuantity(itemId, q, validate)
  \/ \E itemId \in 0..(nextId + 1) : \E u \in UpdateOptions : UpdateItem(itemId, u)
  \/ ClearCart

SpecPricedCart == InitPricedCart /\ [][NextPricedCart]_vars

\* the caller of SpecGuardedCart adds, removes and sets quantities under the guards
NextGuardedCart ==
  \/ Mount
  \/ Render
  \/ \E p \in CartProducts : \E v \in CartVariants(p) : \E qa \in QuantityOptions :
       AddItem(p, v, qa)
  \/ \E itemId \in 0..(nextId + 1) : RemoveItem(itemId)
  \/ \E itemId \in 0..(nextId + 1) : \E q \in GuardedUpdateQuantities :
       \E validate \in BOOLEAN : UpdateQuantity(itemId, q, validate)

SpecGuardedCart == InitGuardedCart /\ [][NextGuardedCart]_vars

\* the caller of SpecVisibleCart shows and hides the cart, from one handler or from
\* several, and adds items in between
NextVisibleCart ==
  \/ Mount
  \/ Render
  \/ \E p \in CartProducts : \E v \in CartVariants(p) : \E qa \in PricedQuantityOptions :
       AddItem(p, v, qa)
  \/ OpenCartCall
  \/ CloseCartCall
  \/ ToggleCartCall

SpecVisibleCart == InitCart /\ [][NextVisibleCart]_vars

(***************************************************************************)
(* Claims about addItem and the quantities of the line items.              *)
(***************************************************************************)
\* the quantity an addItem call asks for: options.quantity, 1 when it is left out
Requested(qa) == IF qa.set THEN qa.v ELSE 1

\* addItem of a product and variant has just added an item, after an addItem of the same
\* product and variant that added one too; both were called with a quantity of 1 or more
\* on the `actions` object of a render that had caught up with the cart
AddedTwice ==
  /\ last.op = "addItem"
  /\ last.added
  /\ last.prev # Null
  /\ last.prev.current
  /\ last.prev.rendered
  /\ last.prev.product = last.arg.product
  /\ last.prev.variant = last.arg.variant
  /\ last.prev.requested.set /\ last.prev.requested.v >= 1
  /\ last.arg.quantity.set /\ last.arg.quantity.v >= 1

TheLines == LinesOf(cart.items, last.arg.product, last.arg.variant)

\* the two items added are lines of their own, holding the quantities asked for
TwoSeparateLines ==
  /\ \E i \in 1..Len(cart.items) :
       cart.items[i].id = last.prev.id /\ cart.items[i].quantity = last.prev.requested.v
  /\ \E i \in 1..Len(cart.items) :
       cart.items[i].id = last.item.id /\ cart.items[i].quantity = last.arg.quantity.v

MinQuantity == IF cartConfig.minQuantityPerItem.set THEN cartConfig.minQuantityPerItem.v ELSE 1

OutOfBounds(q) ==
  \/ q < MinQuantity
  \/ cartConfig.maxQuantityPerItem.set /\ q > cartConfig.maxQuantityPerItem.v

\* C9: addItem with a quantity outside the configured bounds (minimum 1 and no maximum when
\* not configured) throws 'Invalid quantity' and adds no line item, under every config
C9_AddItemRejectsOutOfBounds ==
  (/\ last.op = "addItem"
   /\ ~last.cancelled
   /\ last.error # "guard"
   /\ OutOfBounds(Requested(last.arg.quantity)))
    => /\ last.threw
       /\ last.error = "Invalid quantity"
       /\ ~last.added
       /\ cart.items = rendered.items

\* C10: in every reachable cart state every line item has a quantity of at least the
\* configured minimum (1 when not configured)
C10_QuantityAtLeastMinimum ==
  cartConfig # Null =>
    \A i \in 1..Len(cart.items) : cart.items[i].quantity >= MinQuantity

(***************************************************************************)
(* Claims about the totals, the storage and the onCartUpdate event.        *)
(***************************************************************************)
\* the total calculation of the config: pricing.calculateTotals when set, else the default
TotalsOf(items) ==
  IF cartConfig.calculateTotals = "custom" THEN CustomTotals(items)
  ELSE calculateCartTotals(items, cartConfig.taxRate)

\* C11: once a change of the item list (add, remove, quantity update, item update, clear,
\* load from storage) has settled, the totals of the cart are the total calculation of the
\* config applied to the current item list
C11_TotalsFollowItems == Settled => cart.totals = TotalsOf(cart.items)

\* a settled cart with items whose totals the caller-supplied calculateTotals computed
C11_Witness ==
  /\ Settled
  /\ last.op = "render"
  /\ last.arg.effect
  /\ cart.items # <<>>
  /\ cartConfig.calculateTotals = "custom"
  /\ cart.totals = CustomTotals(cart.items)

\* C12: after a change of the item list the snapshot written to storage and the state
\* passed to onCartUpdate carry the totals computed from the items they contain; with
\* storage type 'none' nothing is written
C12_SnapshotIsRecomputedState ==
  /\ cartConfig.storage = "none" => storage = Null
  /\ (last.op = "render" /\ last.arg.effect) =>
       /\ cartConfig.storage # "none" =>
            FromJson(storage).totals = TotalsOf(FromJson(storage).items)
       /\ cartConfig.onCartUpdate => notified.totals = TotalsOf(notified.items)

\* C13: the default totals have subtotal = sum of price * quantity; with shouldIncludeTax
\* not true there is no tax and total = subtotal whatever the taxRate; with shouldIncludeTax
\* true and rate r, tax = subtotal * r and total = subtotal + tax
C13_DefaultTotals ==
  (Settled /\ cartConfig.calculateTotals = "absent") =>
    LET subtotal == SumItems(cart.items)
        rate == IF cartConfig.taxRate.set THEN cartConfig.taxRate.v ELSE 0
        tax == IF cart.totals.tax.set THEN cart.totals.tax.v ELSE 0
    IN /\ cart.totals.subtotal = subtotal
       /\ IF cartConfig.shouldIncludeTax = "true"
          THEN tax = (subtotal * rate) \div 100 /\ cart.totals.total = subtotal + tax
          ELSE ~cart.totals.tax.set /\ cart.totals.total = subtotal

(***************************************************************************)
(* Claims about updateQuantity and the onBefore... guards.                 *)
(***************************************************************************)
HasItem(items, itemId) == \E i \in 1..Len(items) : items[i].id = itemId

QuantityOf(items, itemId) ==
  LET i == CHOOSE i \in 1..Len(items) : items[i].id = itemId IN items[i].quantity

InvalidUpdate ==
  /\ last'.op = "updateQuantity"
  /\ HasItem(cart.items, last'.arg.itemId)
  /\ last'.arg.validate
  /\ OutOfBounds(last'.arg.quantity)

QuantityKept ==
  /\ HasItem(cart'.items, last'.arg.itemId)
  /\ QuantityOf(cart'.items, last'.arg.itemId) = QuantityOf(cart.items, last'.arg.itemId)

\* C15 as stated: updateQuantity with validation requested and q below the minimum (1 when
\* not configured) or above the maximum throws 'Invalid quantity' and leaves the item's
\* quantity unchanged, whatever the onBeforeUpdateQuantity guard returns
C15_InvalidUpdateFailsWhateverGuard ==
  [][InvalidUpdate =>
       /\ last'.threw
       /\ last'.error = "Invalid quantity"
       /\ QuantityKept]_vars

\* C15 amended: the item's quantity is unchanged in every case; the call throws 'Invalid
\* quantity' when the guard is absent or returns anything but false, returns without an
\* error when the guard returns false, and throws the guard's error when the guard throws
C15_InvalidUpdateFailsAfterGuard ==
  [][InvalidUpdate =>
       /\ QuantityKept
       /\ CASE cartConfig.onBeforeUpdateQuantity = "throw" ->
                 last'.threw /\ last'.error = "guard"
            [] cartConfig.onBeforeUpdateQuantity = "false" ->
                 ~last'.threw /\ last'.cancelled
            [] OTHER -> last'.threw /\ last'.error = "Invalid quantity"]_vars

\* an invalid quantity under a guard that returned false: the call returned without error
C15_Witness ==
  /\ last.op = "updateQuantity"
  /\ last.arg.validate
  /\ OutOfBounds(last.arg.quantity)
  /\ HasItem(cart.items, last.arg.itemId)
  /\ cartConfig.onBeforeUpdateQuantity = "false"
  /\ last.cancelled
  /\ ~last.threw

\* the guard of the action of the step
GuardOf(op) ==
  CASE op = "addItem" -> cartConfig.onBeforeAddItem
    [] op = "removeItem" -> cartConfig.onBeforeRemoveItem
    [] op = "updateQuantity" -> cartConfig.onBeforeUpdateQuantity
    [] OTHER -> "absent"

\* a step of addItem, removeItem or updateQuantity that reaches its guard
GuardedStep ==
  /\ last'.op \in {"addItem", "removeItem", "updateQuantity"}
  /\ last'.op = "updateQuantity" => HasItem(cart.items, last'.arg.itemId)

\* the action went on after its guard: addItem validated and added, removeItem removed,
\* updateQuantity validated and set the quantity
Proceeded ==
  /\ ~last'.cancelled
  /\ CASE last'.op = "addItem" ->
            \/ last'.threw /\ last'.error = "Invalid quantity"
            \/ last'.added /\ cart'.items # cart.items
       [] last'.op = "removeItem" -> ~last'.threw /\ ~HasItem(cart'.items, last'.arg.itemId)
       [] OTHER ->
            \/ last'.threw /\ last'.error = "Invalid quantity"
            \/ ~last'.threw
               /\ QuantityOf(cart'.items, last'.arg.itemId) = last'.arg.quantity

\* C16: when the onBeforeAddItem, onBeforeRemoveItem or onBeforeUpdateQuantity guard
\* returns false the call is a no-op (items unchanged, onAfterAddItem not fired); when the
\* guard is absent or returns anything but false the operation proceeds
C16_GuardFalseCancels ==
  [][GuardedStep =>
       CASE GuardOf(last'.op) = "false" ->
              /\ last'.cancelled
              /\ ~last'.threw
              /\ cart'.items = cart.items
              /\ last'.afterAdd = Null
         [] GuardOf(last'.op) = "throw" -> last'.threw /\ cart'.items = cart.items
         [] OTHER -> Proceeded]_vars

\* an addItem cancelled by its guard, under a config with onAfterAddItem set
C16_Witness ==
  /\ last.op = "addItem"
  /\ cartConfig.onBeforeAddItem = "false"
  /\ cartConfig.onAfterAddItem
  /\ last.cancelled
  /\ last.afterAdd = Null
  /\ cart.items = rendered.items

(***************************************************************************)
(* C17: register on a registry that is already initialized puts the plugin *)
(* at the end of the registration order and at once invokes its mount hook *)
(* (if it has one) exactly once, with the registry's current config and    *)
(* theme; on a registry that is not yet initialized it puts the plugin at  *)
(* the end and invokes no hook.                                            *)
(***************************************************************************)
\* the mount hooks of the plugins ps, in order, each called with (config, theme)
MountEvents(ps, config, theme) ==
  LET hooked == SelectObjs(ps, {o \in PluginObjects : HasMount(o)}) IN
  [i \in 1..Len(hooked) |->
     Event("onMount", hooked[i], <<config, theme>>, Plugin(hooked[i]).onMount = "throw")]

C17_RegisterMountsWhenInitialized ==
  (last.op = "register" /\ ~last.threw) =>
    /\ pm = [last.before EXCEPT !.plugins = Append(last.before.plugins, last.arg)]
    /\ last.events = IF last.before.initialized
                     THEN MountEvents(<<last.arg>>, last.before.config, last.before.theme)
                     ELSE <<>>

\* D joins an initialized registry that already holds a plugin, and D's mount hook runs
C17_Witness ==
  /\ last.op = "register"
  /\ ~last.threw
  /\ last.arg = "D"
  /\ last.before.initialized
  /\ last.before.plugins # <<>>
  /\ pm.plugins = Append(last.before.plugins, "D")
  /\ Len(last.events) = 1
  /\ last.events[1].arg = <<pm.config, pm.theme>>

(***************************************************************************)
(* C18: initialize(config, theme) stores the config and the theme, marks   *)
(* the registry initialized and invokes the mount hook of every registered *)
(* plugin exactly once, in registration order, with the supplied config    *)
(* and theme; it removes no plugin and invokes no unmount hook.            *)
(***************************************************************************)
C18_InitializeMountsAll ==
  last.op = "initialize" =>
    /\ ~last.threw
    /\ pm = [last.before EXCEPT !.config = last.input[1], !.theme = last.input[2],
                                !.initialized = TRUE]
    /\ last.events = MountEvents(last.before.plugins, last.input[1], last.input[2])

\* a second initialize, with another config, of a registry of three whose middle mount hook throws
C18_Witness ==
  /\ last.op = "initialize"
  /\ last.before.initialized
  /\ last.before.config # pm.config
  /\ pm.plugins = <<"A", "B", "D">>
  /\ Objs(last.events) = <<"A", "B", "D">>
  /\ last.events[2].threw

(***************************************************************************)
(* C19: unregister(id) returns true exactly when a plugin with that id was *)
(* registered; then the plugin's unmount hook (if any) is invoked and the  *)
(* plugin is removed, also when the hook throws; for an unknown id it      *)
(* returns false, invokes no hook and leaves the registry as it was.       *)
(***************************************************************************)
\* the unmount hooks of the plugins of ps registered under id
UnmountEvents(ps, id) ==
  LET hooked == SelectObjs(ps, {o \in PluginObjects : Plugin(o).id = id /\ HasUnmount(o)}) IN
  [i \in 1..Len(hooked) |->
     Event("onUnmount", hooked[i], Undefined, Plugin(hooked[i]).onUnmount = "throw")]

C19_UnregisterRemoves ==
  last.op = "unregister" =>
    /\ ~last.threw
    /\ last.ret = IF Has(last.before, last.arg) THEN True ELSE False
    /\ ~Has(pm, last.arg)
    /\ pm = [last.before EXCEPT !.plugins =
               SelectObjs(last.before.plugins,
                          {o \in PluginObjects : Plugin(o).id # last.arg})]
    /\ last.events = UnmountEvents(last.before.plugins, last.arg)
    /\ ~Has(last.before, last.arg) => (pm = last.before /\ last.events = <<>>)

\* B, whose unmount hook throws, is unregistered from between two others
C19_Witness ==
  /\ last.op = "unregister"
  /\ last.arg = "b"
  /\ last.before.plugins = <<"A", "B", "C">>
  /\ pm.plugins = <<"A", "C">>
  /\ last.ret = True
  /\ Len(last.events) = 1
  /\ last.events[1].threw

(***************************************************************************)
(* C20: applyBeforeFetchHook(url, options) threads the pair through every  *)
(* plugin's beforeFetch in registration order, each hook receiving the     *)
(* pair the previous one returned; a hook that throws leaves url and       *)
(* options as they were before it; the final pair is returned.             *)
(* applyAfterFetchHook threads the response the same way.                  *)
(***************************************************************************)
RECURSIVE RequestAfter(_, _)
\* the pair after the beforeFetch hooks of ps, a missing or throwing hook being the identity
RequestAfter(ps, pair) ==
  IF ps = <<>> THEN pair
  ELSE LET o == ps[Len(ps)]
           x == RequestAfter(Front(ps), pair)
           r == CallBeforeFetch(o, x.url, x.options)
       IN IF Plugin(o).beforeFetch = "absent" \/ r.threw THEN x
          ELSE [url |-> r.url, options |-> r.options]

RECURSIVE ResponseAfter(_, _)
\* the response after the afterFetch hooks of ps
ResponseAfter(ps, response) ==
  IF ps = <<>> THEN response
  ELSE LET o == ps[Len(ps)]
           x == ResponseAfter(Front(ps), response)
           r == CallAfterFetch(o, x)
       IN IF Plugin(o).afterFetch = "absent" \/ r.threw THEN x ELSE r.val

\* the plugins registered before plugin o
Before(ps, o) == SubSeq(ps, 1, (CHOOSE k \in 1..Len(ps) : ps[k] = o) - 1)

C20_FetchHooksThread ==
  /\ last.op = "applyBeforeFetchHook" =>
       LET pair == [url |-> last.input[1], options |-> last.input[2]] IN
       /\ ~last.threw
       /\ pm = last.before
       /\ last.ret = RequestAfter(pm.plugins, pair)
       /\ Objs(last.events) =
            SelectObjs(pm.plugins, {o \in PluginObjects : Plugin(o).beforeFetch # "absent"})
       /\ \A i \in 1..Len(last.events) :
            LET x == RequestAfter(Before(pm.plugins, last.events[i].obj), pair) IN
            last.events[i].arg = <<x.url, x.options>>
  /\ last.op = "applyAfterFetchHook" =>
       /\ ~last.threw
       /\ pm = last.before
       /\ last.ret = ResponseAfter(pm.plugins, last.input[1])
       /\ Objs(last.events) =
            SelectObjs(pm.plugins, {o \in PluginObjects : Plugin(o).afterFetch # "absent"})
       /\ \A i \in 1..Len(last.events) :
            last.events[i].arg = ResponseAfter(Before(pm.plugins, last.events[i].obj), last.input[1])

\* A changes both, B throws, C changes the url: C received A's pair and the result carries A and C
C20_Witness ==
  /\ last.op = "applyBeforeFetchHook"
  /\ pm.plugins = <<"A", "B", "C">>
  /\ last.input = <<<<"u">>, <<"h">>>>
  /\ last.events[2].threw
  /\ last.events[3].arg = <<<<"u", "A">>, <<"h", "A">>>>
  /\ last.ret = [url |-> <<"u", "A", "C">>, options |-> <<"h", "A">>]

(***************************************************************************)
(* C21: applyFetchErrorHook(error) returns true if and only if the         *)
(* onFetchError hook of at least one registered plugin returned true for   *)
(* the error; a plugin whose hook throws counts as not having handled it.   *)
(* Every plugin's hook is called, in registration order.                   *)
(***************************************************************************)
C21_FetchErrorHandledByAny ==
  last.op = "applyFetchErrorHook" =>
    /\ ~last.threw
    /\ pm = last.before
    /\ last.ret = IF \E i \in 1..Len(pm.plugins) : Plugin(pm.plugins[i]).onFetchError = "true"
                  THEN True ELSE False
    /\ Objs(last.events) =
         SelectObjs(pm.plugins, {o \in PluginObjects : Plugin(o).onFetchError # "absent"})

\* A declines, B throws, and nobody handles the error
C21_Witness ==
  /\ last.op = "applyFetchErrorHook"
  /\ pm.plugins = <<"A", "B">>
  /\ last.events[2].threw
  /\ last.ret = False

\* C handles the error and the hooks registered after it are still called
C21_WitnessHandled ==
  /\ last.op = "applyFetchErrorHook"
  /\ pm.plugins = <<"C", "B", "A">>
  /\ Len(last.events) = 3
  /\ last.ret = True

(***************************************************************************)
(* C22: constructing the configuration from user input that lacks one of   *)
(* the required fields mode, defaultCurrency, supportedCurrencies or       *)
(* defaultLocale fails and produces no merged configuration; when all      *)
(* required fields are present, every supplied field overrides the default *)
(* and every field not supplied takes its default.                         *)
(***************************************************************************)
C22_RequiredFieldsEnforced ==
  phase = "constructed" =>
    IF RequiredConfigFields \subseteq DOMAIN props.config
    THEN /\ provider # Null
         /\ \A k \in DOMAIN provider.config :
              provider.config[k] = IF k \in DOMAIN props.config THEN props.config[k]
                                   ELSE defaultConfig[k]
    ELSE provider = Null

(***************************************************************************)
(* C23: the theme of the provider is the per-section merge of the supplied *)
(* theme over the default theme: for every section and every key of the    *)
(* section the value is the supplied one if the key was supplied and the   *)
(* default one otherwise, so supplying one key of a section removes none   *)
(* of the section's other default keys.                                    *)
(***************************************************************************)
C23_ThemeMergedPerSection ==
  provider # Null =>
    \A s \in DOMAIN defaultTheme :
      /\ s \in DOMAIN provider.theme
      /\ \A k \in DOMAIN defaultTheme[s] :
           /\ k \in DOMAIN provider.theme[s]
           /\ provider.theme[s][k] =
                IF s \in DOMAIN props.theme /\ k \in DOMAIN props.theme[s]
                THEN props.theme[s][k] ELSE defaultTheme[s][k]

(***************************************************************************)
(* C24: the cart starts closed and is either closed or open; openCart      *)
(* leaves it open, closeCart closed, and every toggleCart call inverts the *)
(* visibility that the visibility calls issued before it resulted in; none *)
(* of the three changes the item list or the totals.                       *)
(***************************************************************************)
C24_VisibilityCalls ==
  /\ cart.isOpen \in BOOLEAN
  /\ ~mounted => ~cart.isOpen
  /\ last.op = "openCart" => cart.isOpen
  /\ last.op = "closeCart" => ~cart.isOpen
  /\ last.op = "toggleCart" => cart.isOpen = ~last.arg.before.isOpen
  /\ last.op \in {"openCart", "closeCart", "toggleCart"} =>
       /\ cart.items = last.arg.before.items
       /\ cart.totals = last.arg.before.totals

(***************************************************************************)
(* C25: over the provider's lifecycle every registration of a plugin leads *)
(* to exactly one invocation of the plugin's mount hook before the plugin  *)
(* is next unregistered; re-registering the plugins on a prop change       *)
(* mounts no plugin twice.                                                 *)
(***************************************************************************)
\* how often the invocations ev call the mount hook of plugin o
MountCount(ev, o) ==
  Cardinality({i \in 1..Len(ev) : ev[i].hook = "onMount" /\ ev[i].obj = o})

\* a lifecycle method has registered the plugins of the props and returned
Reloaded ==
  /\ last.op \in {"componentDidMount", "componentDidUpdate"}
  /\ ~last.threw
  /\ last.events # <<>>

C25_RegistrationMountsOnce ==
  Reloaded =>
    \A i \in 1..Len(pm.plugins) :
      HasMount(pm.plugins[i]) => MountCount(last.events, pm.plugins[i]) = 1

(***************************************************************************)
(* C26: after a prop change that supplies a new config or theme, every     *)
(* mount hook invoked for the newly registered plugins receives the newly  *)
(* merged config and theme; no mount hook is invoked with the config or    *)
(* the theme of the previous props.                                        *)
(***************************************************************************)
C26_MountReceivesNewConfig ==
  (last.op = "componentDidUpdate" /\ ~last.threw) =>
    \A i \in 1..Len(last.events) :
      last.events[i].hook = "onMount" =>
        last.events[i].arg = <<provider.config, provider.theme>>

(***************************************************************************)
(* C27: the unmount hook of a plugin is invoked only if its mount hook was *)
(* invoked since the plugin was last registered, in every sequence of      *)
(* register, unregister and initialize calls.  A registry mounts a plugin  *)
(* when it is initialized or, once initialized, when the plugin is         *)
(* registered: the plugins of an initialized registry have been mounted,   *)
(* those of a registry never initialized have not.                         *)
(***************************************************************************)
C27_UnmountOnlyAfterMount ==
  last.op = "unregister" =>
    \A i \in 1..Len(last.events) :
      (last.events[i].hook = "onUnmount" /\ HasMount(last.events[i].obj)) =>
        last.before.initialized

\* the same for the provider's teardown, a mount aborted by a duplicate id included
C27_TeardownOnlyAfterMount ==
  last.op = "componentWillUnmount" =>
    \A i \in 1..Len(last.events) :
      (last.events[i].hook = "onUnmount" /\ HasMount(last.events[i].obj)) =>
        last.before.initialized

(***************************************************************************)
(* C28: when two addItem calls are issued against the same rendered cart   *)
(* (the second before the re-render the first causes), with mergeSameItems *)
(* enabled, both additions are in the item list once both have completed:  *)
(* the total quantity has grown by the sum of the two requested quantities *)
(* and neither added item is lost.                                         *)
(***************************************************************************)
\* addItem has just added an item on the `actions` object on which the addItem before it
\* had added one; both asked for a quantity of 1 or more
AddedTwiceOnOneRender ==
  /\ last.op = "addItem"
  /\ last.added
  /\ last.prev # Null
  /\ last.prev.current
  /\ ~last.prev.rendered
  /\ last.prev.requested.set /\ last.prev.requested.v >= 1
  /\ last.arg.quantity.set /\ last.arg.quantity.v >= 1

C28_BothAddsKept ==
  (AddedTwiceOnOneRender /\ cartConfig.mergeSameItems) =>
    SumQuantity(cart.items) =
      SumQuantity(rendered.items) + last.prev.requested.v + last.arg.quantity.v

(***************************************************************************)
(* C29: whenever addItem fires the onAfterAddItem notification, the line   *)
(* item passed to it is a line item of the resulting cart: the cart holds  *)
(* an item with that id and that quantity, with mergeSameItems disabled    *)
(* and enabled.                                                            *)
(***************************************************************************)
C29_NotifiedItemIsInCart ==
  (last.op = "addItem" /\ last.afterAdd # Null) =>
    \E i \in 1..Len(cart.items) :
      /\ cart.items[i].id = last.afterAdd.id
      /\ cart.items[i].quantity = last.afterAdd.quantity

(***************************************************************************)
(* C30: when a cart with storage enabled is mounted while its storage key  *)
(* holds a snapshot the cart persisted earlier, then once the mount has    *)
(* settled the item list is the snapshot's item list and the storage key   *)
(* holds those items; the mount does not leave the persisted items         *)
(* replaced by an empty cart.                                              *)
(***************************************************************************)
C30_MountKeepsSavedItems ==
  [][(last.op = "mount" /\ last.arg.loaded /\ last'.op = "render") =>
       /\ cart.items = FromJson(SavedCart).items
       /\ cart'.items = FromJson(SavedCart).items
       /\ cart' = rendered' /\ ~itemsDirty'
       /\ storage' # Null
       /\ FromJson(storage').items = FromJson(SavedCart).items]_vars

\* the mount of a cart over a saved snapshot has settled: the items are on screen and stored
C30_Witness ==
  /\ Settled
  /\ last.op = "render"
  /\ last.arg.effect
  /\ nextId = 0
  /\ cartConfig.storage = "localStorage"
  /\ cart.items = FromJson(SavedCart).items
  /\ cart.items # <<>>
  /\ FromJson(storage).items = cart.items

====
